---- MODULE Spec2Model ----
(***************************************************************************)
(* Sample / CentralSample of kungpao/isophote/ellipse/sample.py: the       *)
(* elliptical walk, NaN masking, sigma clipping, the cached tensor and the *)
(* gradient estimation of update().                                        *)
(*                                                                         *)
(* Numbers.  A Python/numpy float is an exact rational <<n, d>> (d > 0,    *)
(* lowest terms), NaN is <<0, 0>> and Python's None is the empty tuple.    *)
(* Rounding of binary floating point is not modelled.  A standard          *)
(* deviation is never needed by itself: the code only compares against     *)
(* sclip * sig and squares sigma, so the model works with variances, and   *)
(* a gradient error (a square root) is <<n, d, 2>>: the root of n/d.       *)
(***************************************************************************)
EXTENDS Integers, Sequences, FiniteSets, TLC

None == <<>>
NaN == <<0, 0>>

\* ------------------------------------------------------------ arithmetic

\* F of the value of v, with v evaluated once (a definition of a LET is
\* evaluated anew wherever it is used)
Once(v, F(_)) == CHOOSE r \in {F(x) : x \in {v}} : TRUE

Once2(v, w, F(_, _)) == CHOOSE r \in {F(x, y) : x \in {v}, y \in {w}} : TRUE

Abs(x) == IF x < 0 THEN -x ELSE x

RECURSIVE GCD(_, _)
GCD(a, b) == IF b = 0 THEN a ELSE GCD(b, a % b)

\* the rational n/d in lowest terms with a positive denominator
Rat(n, d) ==
    Once(GCD(Abs(n), Abs(d)), LAMBDA g :
        IF d < 0 THEN <<(-n) \div g, (-d) \div g>> ELSE <<n \div g, d \div g>>)

RAdd(a, b) ==
    Once2(a, b, LAMBDA x, y :
        Once((x[2] \div GCD(x[2], y[2])) * y[2], LAMBDA l :
            Rat(x[1] * (l \div x[2]) + y[1] * (l \div y[2]), l)))

RNeg(a) == Once(a, LAMBDA x : <<-x[1], x[2]>>)

\* the product, each numerator reduced against the other denominator first
RMul(a, b) ==
    Once2(a, b, LAMBDA x, y :
        Once2(GCD(Abs(x[1]), y[2]), GCD(Abs(y[1]), x[2]), LAMBDA g, h :
            <<(x[1] \div g) * (y[1] \div h), (x[2] \div h) * (y[2] \div g)>>))

RInv(a) == Once(a, LAMBDA x : Rat(x[2], x[1]))

RLe(a, b) == Once2(a, b, LAMBDA x, y : x[1] * y[2] <= y[1] * x[2])

RLt(a, b) == Once2(a, b, LAMBDA x, y : x[1] * y[2] < y[1] * x[2])

RMin(a, b) == Once2(a, b, LAMBDA x, y : IF RLt(x, y) THEN x ELSE y)

\* float operations: NaN propagates, a comparison with NaN is False
FAdd(a, b) ==
    Once2(a, b, LAMBDA x, y : IF x = NaN \/ y = NaN THEN NaN ELSE RAdd(x, y))

FSub(a, b) ==
    Once2(a, b, LAMBDA x, y : IF x = NaN \/ y = NaN THEN NaN ELSE RAdd(x, RNeg(y)))

FMul(a, b) ==
    Once2(a, b, LAMBDA x, y : IF x = NaN \/ y = NaN THEN NaN ELSE RMul(x, y))

\* a / b where a is a numpy float: NaN / 0 is NaN (a warning, no
\* exception); no other division by zero happens in a run
FDiv(a, b) ==
    Once2(a, b, LAMBDA x, y :
        IF x = NaN \/ y = NaN \/ y[1] = 0 THEN NaN ELSE RMul(x, RInv(y)))

FGe(a, b) ==
    Once2(a, b, LAMBDA x, y : IF x = NaN \/ y = NaN THEN FALSE ELSE RLe(y, x))

\* Python truth value of None or a float: None and 0.0 are false, NaN is true
Truthy(v) ==
    Once(v, LAMBDA x : IF x = None THEN FALSE ELSE IF x = NaN THEN TRUE ELSE x[1] # 0)

\* ------------------------------------------------------------- constants

BI_LINEAR == "bi-linear"
MEAN == "mean"
MEDIAN == "median"
NEAREST_NEIGHBOR == "nearest_neighbor"

\* np.pi * 2. to three decimals
TwoPi == Rat(6283, 1000)

PHI_MIN == Rat(5, 100)

\* the cap of the angular step in the walk
MaxPhiStep == Rat(5, 10)

\* the guess of update() when no previous gradient is recorded
DefaultGradient == Rat(-5, 100)

\* the factor of the last fallback of update()
Shallower == Rat(8, 10)

\* ------------------------------------------------- statistics of a series
\* (sums split the series in halves: the order of a sum of exact numbers
\* does not matter)

RECURSIVE SumOf(_)
SumOf(xs) ==
    Once(xs, LAMBDA s :
        IF Len(s) = 0 THEN <<0, 1>>
        ELSE IF Len(s) = 1 THEN s[1]
        ELSE RAdd(SumOf(SubSeq(s, 1, Len(s) \div 2)),
                  SumOf(SubSeq(s, Len(s) \div 2 + 1, Len(s)))))

\* np.mean / np.nanmean of intensities that hold no NaN: NaN when empty
MeanOf(xs) ==
    Once(xs, LAMBDA s :
        IF Len(s) = 0 THEN NaN ELSE RMul(SumOf(s), <<1, Len(s)>>))

\* the sum of the squared deviations from m
RECURSIVE SumSqDev(_, _)
SumSqDev(xs, m) ==
    Once(xs, LAMBDA s :
        IF Len(s) = 0 THEN <<0, 1>>
        ELSE IF Len(s) = 1 THEN Once(RAdd(s[1], RNeg(m)), LAMBDA e : RMul(e, e))
        ELSE RAdd(SumSqDev(SubSeq(s, 1, Len(s) \div 2), m),
                  SumSqDev(SubSeq(s, Len(s) \div 2 + 1, Len(s)), m)))

\* np.std(xs) ** 2, the mean of the squared deviations: NaN when empty
VarOf(xs) ==
    Once2(xs, MeanOf(xs), LAMBDA s, m :
        IF m = NaN THEN NaN ELSE RMul(SumSqDev(s, m), <<1, Len(s)>>))

\* xs[mask] of numpy: the entries of xs where the boolean mask holds
RECURSIVE Masked(_, _)
Masked(xs, mask) ==
    Once2(xs, mask, LAMBDA s, k :
        IF Len(s) = 0 THEN <<>>
        ELSE IF Len(s) = 1 THEN (IF k[1] THEN s ELSE <<>>)
        ELSE Masked(SubSeq(s, 1, Len(s) \div 2), SubSeq(k, 1, Len(s) \div 2))
             \o Masked(SubSeq(s, Len(s) \div 2 + 1, Len(s)),
                       SubSeq(k, Len(s) \div 2 + 1, Len(s))))

\* np.isfinite(xs)
RECURSIVE IsFinite(_)
IsFinite(xs) ==
    Once(xs, LAMBDA s :
        IF Len(s) = 0 THEN <<>>
        ELSE IF Len(s) = 1 THEN <<s[1] # NaN>>
        ELSE IsFinite(SubSeq(s, 1, Len(s) \div 2))
             \o IsFinite(SubSeq(s, Len(s) \div 2 + 1, Len(s))))

\* lower <= x <= upper for lower, upper = mean -+ sclip * sig, which says
\* |x - mean| <= sclip * sig: in squares, with bound = sclip**2 * sig**2
Inside(x, mean, bound, sclip) ==
    /\ (bound[1] = 0 \/ RLe(<<0, 1>>, sclip))
    /\ Once(RAdd(x, RNeg(mean)), LAMBDA e : RLe(RMul(e, e), bound))

\* (xs >= lower) & (xs <= upper)
RECURSIVE Between(_, _, _, _)
Between(xs, mean, bound, sclip) ==
    Once(xs, LAMBDA s :
        IF Len(s) = 0 THEN <<>>
        ELSE IF Len(s) = 1 THEN <<Inside(s[1], mean, bound, sclip)>>
        ELSE Between(SubSeq(s, 1, Len(s) \div 2), mean, bound, sclip)
             \o Between(SubSeq(s, Len(s) \div 2 + 1, Len(s)), mean, bound, sclip))

\* ------------------------------------------- collaborators (not in src/)

ImageShape == <<10, 10>>

\* image.shape[0] / 2, image.shape[1] / 2
ImageCenter == <<Rat(ImageShape[1], 2), Rat(ImageShape[2], 2)>>

Images == {"flat", "nan", "rings", "bumpy"}

Modes == {BI_LINEAR, MEAN}

\* integrator.is_area(): the sector-area-sensitive modes
is_area(mode) == mode \in {MEAN, MEDIAN}

\* geometry.initial_polar_angle
initial_polar_angle(geom) == PHI_MIN

\* geometry.radius(phi): sma on a circle; on an ellipse the boundary comes
\* closer to the center around the minor axis, between the odd multiples
\* 1, 3 and 5, 7 of pi / 4 = 157/200
radius(geom, phi) ==
    IF geom.eps[1] = 0 THEN geom.sma
    ELSE LET near(k) == RLe(<<k * 157, 200>>, phi) /\ RLt(phi, <<(k + 2) * 157, 200>>)
         IN  IF near(1) \/ near(5)
             THEN RMul(geom.sma, RAdd(<<1, 1>>, RNeg(geom.eps)))
             ELSE geom.sma

\* geometry.initial_polar_radius
initial_polar_radius(geom) == radius(geom, initial_polar_angle(geom))

\* the intensity that integrator.integrate(radius, phi) appends: the image
\* read at the polar position about the geometry's center.  An area
\* integrator averages a sector and so reads another value than a point
\* interpolation wherever the image is not flat; a path about a center away
\* from the image's center leaves the array in its last stretch.
Pixel(img, geom, mode, r, phi) ==
    LET off  == geom.x0 # ImageCenter[1] \/ geom.y0 # ImageCenter[2]
        far  == RLe(<<21, 10>>, r)
        area == IF is_area(mode) THEN 1 ELSE 0
    IN  IF off /\ RLe(<<11, 2>>, phi) THEN NaN
        ELSE IF img = "flat" THEN <<10, 1>>
        ELSE IF img = "nan" THEN NaN
        ELSE IF img = "rings" THEN (IF far THEN <<5, 1>> ELSE <<10, 1>>)
        ELSE IF RLt(phi, <<1, 1>>) THEN <<12 + area - (IF far THEN 3 ELSE 0), 1>>
        ELSE IF RLt(phi, <<2, 1>>) THEN <<10 + area - (IF far THEN 3 ELSE 0), 1>>
        ELSE IF RLt(phi, <<3, 1>>) THEN NaN
        ELSE IF RLt(phi, <<7, 2>>) THEN <<30 + area, 1>>
        ELSE <<9 + area - (IF far THEN 3 ELSE 0), 1>>

\* integrator.get_sector_area() after integrate(r, phi)
get_sector_area(mode, geom, r) ==
    IF is_area(mode) THEN RMul(RMul(geom.sma, geom.astep), r) ELSE <<2, 1>>

\* ------------------------------------------------------------------ state

SampleIds == {"a", "b"}

\* the address of the caller's Geometry; a Sample's own Geometry lives at
\* the address named like the Sample, a gradient sample's at "tmp"
G == "g"

TMP == "tmp"

VARIABLES
    image,      \* the image's contents, never written
    phistep,    \* what each integrator's get_polar_angle_step() returns
    clip,       \* <<sclip, nclip>> the caller passes to its Samples
    geoms,      \* the heap of Geometry objects: address -> fields
    samples,    \* the Sample objects built so far: id -> fields
    ctor,       \* id -> the arguments its constructor got
    runs,       \* id -> how often _extract ran on the Sample
    clears,     \* id -> how often the caller set values = None
    ret,        \* the last call: what was called, on what, how it ended
    grads       \* the _get_gradient calls of the last update(), in order

vars == <<image, phistep, clip, geoms, samples, ctor, runs, clears, ret, grads>>

\* ------------------------------------------------------------ construction

\* Geometry(x0, y0, sma, eps, pa, astep, linear_growth)
Geometry(x0, y0, sma, eps, pa, astep, linear_growth) ==
    [x0 |-> x0, y0 |-> y0, sma |-> sma, eps |-> eps, pa |-> pa,
     astep |-> astep, linear_growth |-> linear_growth]

\* a constructor that keeps the caller's Geometry itself, with no deepcopy,
\* and sets its sma
OwnGeometry_shared(heap, addr, sma, x0, y0, astep, eps, pa, linear_growth, geometry) ==
    IF geometry # None
    THEN [heap |-> [heap EXCEPT ![geometry[1]].sma = sma], ref |-> geometry]
    ELSE [heap |-> (addr :> Geometry(IF ~Truthy(x0) \/ ~Truthy(y0)
                                     THEN ImageCenter[1] ELSE x0,
                                     IF ~Truthy(x0) \/ ~Truthy(y0)
                                     THEN ImageCenter[2] ELSE y0,
                                     sma, eps, pa, astep, linear_growth)) @@ heap,
          ref  |-> <<addr>>]

\* The geometry part of Sample.__init__: the heap after it and the reference
\* the Sample keeps.  geometry is None or <<address>>.
OwnGeometry(heap, addr, sma, x0, y0, astep, eps, pa, linear_growth, geometry) ==
    IF geometry # None
    THEN [heap |-> (addr :> [heap[geometry[1]] EXCEPT !.sma = sma]) @@ heap,
          ref  |-> <<addr>>]
    ELSE LET nocenter == ~Truthy(x0) \/ ~Truthy(y0)
             cx == IF nocenter THEN ImageCenter[1] ELSE x0
             cy == IF nocenter THEN ImageCenter[2] ELSE y0
         IN  [heap |-> (addr :> Geometry(cx, cy, sma, eps, pa, astep, linear_growth)) @@ heap,
              ref  |-> <<addr>>]

\* Sample.__init__ (cls tells Sample from CentralSample, which inherits it)
SampleInit(heap, addr, cls, sma, x0, y0, astep, eps, pa, sclip, nclip, linear_growth, integrmode, geometry) ==
    LET own == OwnGeometry(heap, addr, sma, x0, y0, astep, eps, pa,
                           linear_growth, geometry)
    IN  [heap |-> own.heap,
         smp  |-> [cls |-> cls,
                   integrmode |-> integrmode,
                   geometry |-> own.ref,
                   sclip |-> sclip,
                   nclip |-> nclip,
                   values |-> None,
                   mean |-> None,
                   gradient |-> None,
                   gradient_error |-> None,
                   gradient_relative_error |-> None,
                   sector_area |-> None,
                   total_points |-> 0,
                   actual_points |-> 0,
                   integrator |-> None]]

\* -------------------------------------------------------------- extraction

\* a walk that keeps the integrator the caller selected whatever the probe
\* area
WalkStart_selected(integrmode, geom, r, phi) == integrmode

\* The integrator that walks, after the probe of an area integrator: the
\* output lists start empty again in either case.
WalkStart(integrmode, geom, r, phi) ==
    IF is_area(integrmode)
    THEN Once(get_sector_area(integrmode, geom, r), LAMBDA area :
             IF RLt(area, <<1, 1>>) THEN BI_LINEAR ELSE integrmode)
    ELSE integrmode

\* One pass of the while loop's body: integrate, record the sector area,
\* count the point, step the angle and the radius.
WalkBody(mode, geom, st) ==
    Once(RAdd(st.phi, RMin(phistep[mode], MaxPhiStep)), LAMBDA phi2 :
        [angles |-> Append(st.angles, st.phi),
         radii |-> Append(st.radii, st.radius),
         intensities |-> Append(st.intensities,
                                Pixel(image, geom, mode, st.radius, st.phi)),
         sector_areas |-> Append(st.sector_areas,
                                 get_sector_area(mode, geom, st.radius)),
         total_points |-> st.total_points + 1,
         phi |-> phi2,
         radius |-> radius(geom, phi2)])

\* np.pi * 2. + PHI_MIN
PhiEnd == RAdd(TwoPi, PHI_MIN)

\* The while loop.  done is FALSE when the loop never exits: an integrator
\* returns the same step at every call, so an angle that does not grow in
\* one pass never passes the limit.
RECURSIVE Walk(_, _, _)
Walk(mode, geom, st) ==
    IF ~RLe(st.phi, PhiEnd)
    THEN [done |-> TRUE, st |-> st]
    ELSE Once(WalkBody(mode, geom, st), LAMBDA nx :
             IF RLe(nx.phi, st.phi)
             THEN [done |-> FALSE, st |-> nx]
             ELSE Walk(mode, geom, nx))

\* Sample._nan_masking: np.isfinite(intensities) as the mask of all three
_nan_masking(angles, radii, intensities) ==
    Once(IsFinite(intensities), LAMBDA nan_flag :
        <<Masked(angles, nan_flag), Masked(radii, nan_flag),
          Masked(intensities, nan_flag)>>)

\* Sample._iter_sigma_clip
_iter_sigma_clip(sclip, angles, radii, intensities) ==
    Once2(MeanOf(intensities), FMul(FMul(sclip, sclip), VarOf(intensities)),
          LAMBDA mean, bound :
        Once(Between(intensities, mean, bound, sclip), LAMBDA clipping_mask :
            <<Masked(angles, clipping_mask), Masked(radii, clipping_mask),
              Masked(intensities, clipping_mask)>>))

\* Sample._sigma_clip: nclip passes of _iter_sigma_clip
RECURSIVE _sigma_clip(_, _, _)
_sigma_clip(sclip, nclip, series) ==
    IF nclip > 0
    THEN Once(series, LAMBDA s :
             Once(_iter_sigma_clip(sclip, s[1], s[2], s[3]), LAMBDA clipped :
                 _sigma_clip(sclip, nclip - 1, clipped)))
    ELSE series

\* an end of _extract that counts the points before the clipping
Sample_extract_end_unclipped(smp, mode, st) ==
    Once(_nan_masking(st.angles, st.radii, st.intensities), LAMBDA clean :
        Once(_sigma_clip(smp.sclip, smp.nclip, clean), LAMBDA kept :
            [done |-> TRUE,
             smp |-> [smp EXCEPT !.total_points = st.total_points,
                                 !.actual_points = Len(clean[1]),
                                 !.sector_area = MeanOf(st.sector_areas),
                                 !.integrator = <<mode>>],
             result |-> kept]))

\* the end of Sample._extract, after a walk that ended
Sample_extract_end(smp, mode, st) ==
    Once(_nan_masking(st.angles, st.radii, st.intensities), LAMBDA clean :
        Once(_sigma_clip(smp.sclip, smp.nclip, clean), LAMBDA kept :
            [done |-> TRUE,
             smp |-> [smp EXCEPT !.total_points = st.total_points,
                                 !.actual_points = Len(kept[1]),
                                 !.sector_area = MeanOf(st.sector_areas),
                                 !.integrator = <<mode>>],
             result |-> kept]))

\* Sample._extract: done (FALSE: the walk never exits), the Sample after
\* it and the tensor it returns.
Sample_extract(heap, smp) ==
    Once2(heap[smp.geometry[1]],
          WalkStart(smp.integrmode, heap[smp.geometry[1]],
                    initial_polar_radius(heap[smp.geometry[1]]),
                    initial_polar_angle(heap[smp.geometry[1]])),
          LAMBDA geom, mode :
        Once(Walk(mode, geom,
                  [angles |-> <<>>, radii |-> <<>>, intensities |-> <<>>,
                   sector_areas |-> <<>>, total_points |-> 0,
                   phi |-> initial_polar_angle(geom),
                   radius |-> initial_polar_radius(geom)]),
             LAMBDA w :
            IF w.done
            THEN Sample_extract_end(smp, mode, w.st)
            ELSE [done |-> FALSE,
                  smp |-> [smp EXCEPT !.total_points = w.st.total_points,
                                      !.actual_points = 0,
                                      !.integrator = <<mode>>],
                  result |-> None]))

\* CentralSample._extract: one bi-linear integration at (0, 0)
CentralSample_extract(heap, smp) ==
    [done |-> TRUE,
     smp |-> [smp EXCEPT !.total_points = 1, !.actual_points = 1],
     result |-> << <<Rat(0, 1)>>, <<Rat(0, 1)>>,
                   <<Pixel(image, heap[smp.geometry[1]], BI_LINEAR,
                           Rat(0, 1), Rat(0, 1))>> >>]

\* self._extract(), dispatched on the class
_extract(heap, smp) ==
    IF smp.cls = "CentralSample" THEN CentralSample_extract(heap, smp)
    ELSE Sample_extract(heap, smp)

\* an extract that samples anew at every call
extract_uncached(heap, smp) ==
    Once(_extract(heap, smp), LAMBDA e :
        IF e.done
        THEN [done |-> TRUE, smp |-> [e.smp EXCEPT !.values = e.result],
              val |-> e.result, nruns |-> 1]
        ELSE [done |-> FALSE, smp |-> e.smp, val |-> None, nruns |-> 1])

\* Sample.extract: the cached tensor, or _extract's; nruns counts the runs
\* of _extract
extract(heap, smp) ==
    IF smp.values # None
    THEN [done |-> TRUE, smp |-> smp, val |-> smp.values, nruns |-> 0]
    ELSE Once(_extract(heap, smp), LAMBDA e :
             IF e.done
             THEN [done |-> TRUE, smp |-> [e.smp EXCEPT !.values = e.result],
                   val |-> e.result, nruns |-> 1]
             ELSE [done |-> FALSE, smp |-> e.smp, val |-> None, nruns |-> 1])

\* ---------------------------------------------------------------- gradient

\* np.sqrt(sigma**2 / n + sigma_g**2 / n_g) / sma / step, as the root of
\* its square
GradientError(var, n, var_g, n_g, sma, step) ==
    Once(FDiv(FDiv(FDiv(FDiv(FAdd(FDiv(var, <<n, 1>>), FDiv(var_g, <<n_g, 1>>)),
                             sma), sma), step), step),
         LAMBDA q : IF q = NaN THEN NaN ELSE <<q[1], q[2], 2>>)

\* the gradient sample of _get_gradient: the heap and the Sample built
GradientSample(heap, smp, step) ==
    Once(heap[smp.geometry[1]], LAMBDA geom :
        SampleInit(heap, TMP, "Sample", RMul(RAdd(<<1, 1>>, step), geom.sma),
                   geom.x0, geom.y0, geom.astep, geom.eps, geom.pa, smp.sclip,
                   smp.nclip, geom.linear_growth, smp.integrmode, None))

\* the heap once the gradient sample of a returned _get_gradient is garbage
Collected(heap) == [a \in DOMAIN heap \ {TMP} |-> heap[a]]

\* what a _get_gradient call was and built
GradientCall(built, step) ==
    [step |-> step, geometry |-> built.heap[built.smp.geometry[1]],
     sclip |-> built.smp.sclip, nclip |-> built.smp.nclip,
     integrmode |-> built.smp.integrmode]

\* the lines of _get_gradient after the two extractions
GradientOf(heap, smp, step, built, sg, s) ==
    Once(heap[smp.geometry[1]], LAMBDA geom :
        [done |-> TRUE, heap |-> Collected(built.heap), smp |-> s.smp,
         call |-> GradientCall(built, step), nruns |-> s.nruns,
         gradient |-> FDiv(FDiv(FSub(MeanOf(sg.val[3]), smp.mean), geom.sma), step),
         gradient_error |-> GradientError(VarOf(s.val[3]), Len(s.val[3]),
                                          VarOf(sg.val[3]), Len(sg.val[3]),
                                          geom.sma, step)])

\* Sample._get_gradient; the gradient sample is dropped from the heap when
\* the method returns.
_get_gradient(heap, smp, step) ==
    Once(GradientSample(heap, smp, step), LAMBDA built :
        Once(extract(built.heap, built.smp), LAMBDA sg :
            IF ~sg.done
            THEN [done |-> FALSE, heap |-> Collected(built.heap), smp |-> smp,
                  call |-> GradientCall(built, step), nruns |-> 0,
                  gradient |-> None, gradient_error |-> None]
            ELSE Once(extract(built.heap, smp), LAMBDA s :
                     IF ~s.done
                     THEN [done |-> FALSE, heap |-> Collected(built.heap),
                           smp |-> s.smp,
                           call |-> GradientCall(built, step), nruns |-> s.nruns,
                           gradient |-> None, gradient_error |-> None]
                     ELSE GradientOf(built.heap, smp, step, built, sg, s))))

\* gradient_error / np.abs(gradient): a numpy division, x / 0 is inf
ErrorOver(gradient_error, gradient) ==
    IF gradient_error = NaN \/ gradient = NaN THEN NaN
    ELSE IF gradient[1] = 0 THEN <<1, 0, 2>>
    ELSE Once(RMul(<<gradient_error[1], gradient_error[2]>>,
                   RInv(RMul(gradient, gradient))),
              LAMBDA q : <<q[1], q[2], 2>>)

\* the last lines of Sample.update
RelativeError(gradient, gradient_error) ==
    IF Truthy(gradient_error) THEN ErrorOver(gradient_error, gradient) ELSE None

\* an end of update that also takes a NaN gradient for not meaningful
Sample_update_end_nan(g, previous_gradient, calls, nruns) ==
    Once2(IF g.gradient = NaN \/ FGe(g.gradient, FDiv(previous_gradient, <<3, 1>>))
          THEN FMul(previous_gradient, Shallower) ELSE g.gradient,
          IF g.gradient = NaN \/ FGe(g.gradient, FDiv(previous_gradient, <<3, 1>>))
          THEN None ELSE g.gradient_error,
          LAMBDA gradient, gradient_error :
        [done |-> TRUE, heap |-> g.heap,
         smp |-> [g.smp EXCEPT
                    !.gradient = gradient,
                    !.gradient_error = gradient_error,
                    !.gradient_relative_error =
                        RelativeError(gradient, gradient_error)],
         calls |-> calls, nruns |-> nruns])

\* the end of Sample.update, from the last gradient estimate g on
Sample_update_end(g, previous_gradient, calls, nruns) ==
    Once2(IF FGe(g.gradient, FDiv(previous_gradient, <<3, 1>>))
          THEN FMul(previous_gradient, Shallower) ELSE g.gradient,
          IF FGe(g.gradient, FDiv(previous_gradient, <<3, 1>>))
          THEN None ELSE g.gradient_error,
          LAMBDA gradient, gradient_error :
        [done |-> TRUE, heap |-> g.heap,
         smp |-> [g.smp EXCEPT
                    !.gradient = gradient,
                    !.gradient_error = gradient_error,
                    !.gradient_relative_error =
                        RelativeError(gradient, gradient_error)],
         calls |-> calls, nruns |-> nruns])

\* an update that does not try the doubled step
Sample_update_gradient_once(step, g1, previous_gradient, nruns) ==
    IF ~g1.done
    THEN [done |-> FALSE, heap |-> g1.heap, smp |-> g1.smp,
          calls |-> <<g1.call>>, nruns |-> nruns + g1.nruns]
    ELSE Sample_update_end(g1, previous_gradient, <<g1.call>>, nruns + g1.nruns)

\* Sample.update from the first gradient estimate g1 on
Sample_update_gradient(step, g1, previous_gradient, nruns) ==
    IF ~g1.done
    THEN [done |-> FALSE, heap |-> g1.heap, smp |-> g1.smp,
          calls |-> <<g1.call>>, nruns |-> nruns + g1.nruns]
    ELSE IF FGe(g1.gradient, FDiv(previous_gradient, <<3, 1>>))
    THEN Once(_get_gradient(g1.heap, g1.smp, RMul(<<2, 1>>, step)), LAMBDA g2 :
             IF ~g2.done
             THEN [done |-> FALSE, heap |-> g2.heap, smp |-> g2.smp,
                   calls |-> <<g1.call, g2.call>>,
                   nruns |-> nruns + g1.nruns + g2.nruns]
             ELSE Sample_update_end(g2, previous_gradient, <<g1.call, g2.call>>,
                                    nruns + g1.nruns + g2.nruns))
    ELSE Sample_update_end(g1, previous_gradient, <<g1.call>>, nruns + g1.nruns)

\* Sample.update: done (FALSE: a walk under it never exits), the heap and
\* the Sample after it, the _get_gradient calls it made, the runs of
\* _extract on the Sample itself.
Sample_update(heap, smp) ==
    Once(extract(heap, smp), LAMBDA s :
        IF ~s.done
        THEN [done |-> FALSE, heap |-> heap, smp |-> s.smp, calls |-> <<>>,
              nruns |-> s.nruns]
        ELSE Once2([s.smp EXCEPT !.mean = MeanOf(s.val[3])],
                   IF ~Truthy(s.smp.gradient) THEN DefaultGradient
                   ELSE s.smp.gradient,
                   LAMBDA self, previous_gradient :
                 Once(_get_gradient(heap, self, heap[self.geometry[1]].astep),
                      LAMBDA g1 :
                     Sample_update_gradient(heap[self.geometry[1]].astep, g1,
                                            previous_gradient, s.nruns))))

\* CentralSample.update
CentralSample_update(heap, smp) ==
    Once(extract(heap, smp), LAMBDA s :
        [done |-> s.done, heap |-> heap,
         smp |-> [s.smp EXCEPT !.mean = s.val[3][1],
                               !.gradient = None,
                               !.gradient_error = None,
                               !.gradient_relative_error = None],
         calls |-> <<>>, nruns |-> s.nruns])

\* self.update(), dispatched on the class
update(heap, smp) ==
    IF smp.cls = "CentralSample" THEN CentralSample_update(heap, smp)
    ELSE Sample_update(heap, smp)

\* x = radii * cos(angles + pa) + c of Sample.coordinates, entry by entry as
\* the triple <<radii[i], angles[i] + pa, c>>
RECURSIVE Polar(_, _, _, _)
Polar(radii, angles, pa, c) ==
    Once2(radii, angles, LAMBDA r, a :
        IF Len(a) = 0 THEN <<>>
        ELSE <<<<Head(r), RAdd(Head(a), pa), c>>>> \o Polar(Tail(r), Tail(a), pa, c))

\* a coordinates that returns empty arrays for a Sample without values
coordinates_empty(heap, smp) ==
    IF smp.values = None
    THEN [exc |-> "", val |-> <<<<>>, <<>>>>]
    ELSE Once(heap[smp.geometry[1]], LAMBDA geom :
             [exc |-> "",
              val |-> <<Polar(smp.values[2], smp.values[1], geom.pa, geom.x0),
                        Polar(smp.values[2], smp.values[1], geom.pa, geom.y0)>>])

\* Sample.coordinates: subscripting values = None raises TypeError
coordinates(heap, smp) ==
    IF smp.values = None
    THEN [exc |-> "TypeError", val |-> None]
    ELSE Once(heap[smp.geometry[1]], LAMBDA geom :
             [exc |-> "",
              val |-> <<Polar(smp.values[2], smp.values[1], geom.pa, geom.x0),
                        Polar(smp.values[2], smp.values[1], geom.pa, geom.y0)>>])

\* ----------------------------------------------------------------- the run

\* calls the caller makes in one run
MaxCalls == 2

\* get_polar_angle_step() of each integrator: steps under and over the cap
\* of the loop, and a bi-linear integrator whose step is 0
Steps == [m \in Modes |-> IF m = BI_LINEAR THEN Rat(3, 5) ELSE Rat(2, 5)]

NoStep == [m \in Modes |-> IF m = BI_LINEAR THEN Rat(0, 1) ELSE Rat(2, 5)]

\* the image, the steps of the integrators and the <<sclip, nclip>> the
\* caller passes to its Samples
Scenarios ==
    { <<"flat", Steps, <<Rat(1, 1), 2>> >>,
      <<"rings", Steps, <<Rat(1, 1), 2>> >>,
      <<"bumpy", Steps, <<Rat(1, 1), 2>> >>,
      <<"nan", Steps, <<Rat(0, 1), 1>> >>,
      <<"bumpy", NoStep, <<Rat(0, 1), 1>> >> }

Smas == { Rat(2, 1), Rat(10, 1) }

DEFAULT_STEP == Rat(1, 10)

\* the Geometry the caller shares among its Samples
CallerGeometry ==
    Geometry(Rat(0, 1), Rat(4, 1), Rat(5, 1), Rat(1, 5), Rat(1, 2), DEFAULT_STEP, FALSE)

Init ==
    /\ \E sc \in Scenarios : image = sc[1] /\ phistep = sc[2] /\ clip = sc[3]
    /\ geoms = (G :> CallerGeometry)
    /\ samples = <<>>
    /\ ctor = <<>>
    /\ runs = [s \in SampleIds |-> 0]
    /\ clears = [s \in SampleIds |-> 0]
    /\ ret = [n |-> 0, op |-> "", on |-> "", done |-> TRUE, exc |-> "", val |-> None]
    /\ grads = <<>>

\* the caller may act: its last call returned or raised
Idle == ret.done

Built(s, init, sma, geometry) ==
    \E made \in {init} :
        /\ geoms' = made.heap
        /\ samples' = (s :> made.smp) @@ samples
        /\ ctor' = (s :> [sma |-> sma, geometry |-> geometry]) @@ ctor
        /\ UNCHANGED <<image, phistep, clip, runs, clears, ret, grads>>

\* Sample(image, sma, sclip=, nclip=, integrmode=)
NewSample(s, sma, mode) ==
    /\ Idle
    /\ s \notin DOMAIN samples
    /\ Built(s, SampleInit(geoms, s, "Sample", sma, None, None, DEFAULT_STEP,
                           Rat(0, 1), Rat(0, 1), clip[1], clip[2], FALSE, mode,
                           None),
             sma, None)

\* Sample(image, sma, sclip=, nclip=, geometry=g)
NewSampleFromGeometry(s, sma) ==
    /\ Idle
    /\ s \notin DOMAIN samples
    /\ Built(s, SampleInit(geoms, s, "Sample", sma, None, None, DEFAULT_STEP,
                           Rat(1, 5), Rat(0, 1), clip[1], clip[2], FALSE,
                           BI_LINEAR, <<G>>),
             sma, <<G>>)

\* CentralSample(image, 0.0, geometry=g)
NewCentralSample(s) ==
    /\ Idle
    /\ s \notin DOMAIN samples
    /\ Built(s, SampleInit(geoms, s, "CentralSample", Rat(0, 1), None, None,
                           DEFAULT_STEP, Rat(1, 5), Rat(0, 1), Rat(3, 1), 0,
                           FALSE, BI_LINEAR, <<G>>),
             Rat(0, 1), <<G>>)

Called(op, s, done, exc, val) ==
    ret' = [n |-> ret.n + 1, op |-> op, on |-> s, done |-> done, exc |-> exc,
            val |-> val]

\* sample.extract()
CallExtract(s) ==
    /\ Idle /\ ret.n < MaxCalls
    /\ s \in DOMAIN samples
    /\ \E e \in {extract(geoms, samples[s])} :
           /\ samples' = [samples EXCEPT ![s] = e.smp]
           /\ runs' = [runs EXCEPT ![s] = @ + e.nruns]
           /\ Called("extract", s, e.done, "", e.val)
    /\ UNCHANGED <<image, phistep, clip, geoms, ctor, clears, grads>>

\* sample.update()
CallUpdate(s) ==
    /\ Idle /\ ret.n < MaxCalls
    /\ s \in DOMAIN samples
    /\ \E u \in {update(geoms, samples[s])} :
           /\ samples' = [samples EXCEPT ![s] = u.smp]
           /\ geoms' = u.heap
           /\ runs' = [runs EXCEPT ![s] = @ + u.nruns]
           /\ grads' = u.calls
           /\ Called("update", s, u.done, "", None)
    /\ UNCHANGED <<image, phistep, clip, ctor, clears>>

\* sample.coordinates()
CallCoordinates(s) ==
    /\ Idle /\ ret.n < MaxCalls
    /\ s \in DOMAIN samples
    /\ \E c \in {coordinates(geoms, samples[s])} :
           Called("coordinates", s, TRUE, c.exc, c.val)
    /\ UNCHANGED <<image, phistep, clip, geoms, samples, ctor, runs, clears, grads>>

\* sample.values = None, the caller's way to force a new extraction (of a
\* Sample that holds values: the assignment changes nothing otherwise)
ClearValues(s) ==
    /\ Idle /\ ret.n < MaxCalls
    /\ s \in DOMAIN samples
    /\ samples[s].values # None
    /\ samples' = [samples EXCEPT ![s].values = None]
    /\ clears' = [clears EXCEPT ![s] = @ + 1]
    /\ UNCHANGED <<image, phistep, clip, geoms, ctor, runs, ret, grads>>

Next ==
    \E s \in SampleIds :
        \/ \E sma \in Smas, mode \in Modes : NewSample(s, sma, mode)
        \/ \E sma \in Smas : NewSampleFromGeometry(s, sma)
        \/ NewCentralSample(s)
        \/ CallExtract(s)
        \/ CallUpdate(s)
        \/ CallCoordinates(s)
        \/ ClearValues(s)

Spec == Init /\ [][Next]_vars

\* ------------------------------------------------------------- properties

\* the Geometry a Sample owns
OwnGeom(s) == geoms[samples[s].geometry[1]]

\* this step is the call op on Sample s
Calls(op, s) == ret'.n = ret.n + 1 /\ ret'.op = op /\ ret'.on = s

\* the last call was op on s and it returned
Returned(op, s) == ret.op = op /\ ret.on = s /\ ret.done /\ ret.exc = ""

\* C1: while a Sample holds values no call runs _extract on it, and an
\* extract() then returns the values it holds and keeps them; _extract has
\* run at most once more than the caller cleared the values; an extract()
\* on a Sample without values (never extracted, or cleared) runs _extract
\* once.
C1_ExtractCached ==
    [][\A s \in DOMAIN samples :
          /\ samples[s].values # None => runs'[s] = runs[s]
          /\ samples[s].values # None /\ Calls("extract", s)
                => /\ ret'.val = samples[s].values
                   /\ samples'[s].values = samples[s].values
          /\ samples[s].values = None /\ Calls("extract", s)
                => runs'[s] = runs[s] + 1
          /\ runs'[s] <= clears'[s] + 1]_vars

\* the second call on the only Sample is an extract() after an update():
\* it returned the values held with _extract run once
C1_Witness ==
    \E s \in SampleIds :
        /\ DOMAIN samples = {s}
        /\ Returned("extract", s) /\ ret.n = 2
        /\ grads # <<>>
        /\ runs[s] = 1 /\ clears[s] = 0
        /\ ret.val = samples[s].values /\ ret.val # None

\* C2: actual_points <= total_points on every Sample, and the three rows of
\* the values it holds are as long as actual_points says.
C2_PointCounts ==
    \A s \in DOMAIN samples :
        /\ samples[s].actual_points <= samples[s].total_points
        /\ samples[s].values # None
              => /\ Len(samples[s].values) = 3
                 /\ \A i \in 1..3 :
                        Len(samples[s].values[i]) = samples[s].actual_points

\* a Sample holds a series that lost points to the masking or the clipping,
\* and not all of them
C2_Witness ==
    \E s \in DOMAIN samples :
        /\ samples[s].values # None
        /\ 0 < samples[s].actual_points
        /\ samples[s].actual_points < samples[s].total_points
        /\ Len(samples[s].values[3]) = samples[s].actual_points

\* C3: on the constant image, update() of a Sample with no gradient yet
\* returns after two _get_gradient calls, with step astep and then
\* 2 * astep, and leaves gradient = -0.04 with no gradient_error and no
\* gradient_relative_error.
C3_FlatFallback ==
    [][\A s \in DOMAIN samples :
          /\ image = "flat"
          /\ Calls("update", s)
          /\ samples[s].cls = "Sample"
          /\ samples[s].gradient = None
          => /\ ret'.done /\ ret'.exc = ""
             /\ Len(grads') = 2
             /\ grads'[1].step = OwnGeom(s).astep
             /\ grads'[2].step = RMul(<<2, 1>>, OwnGeom(s).astep)
             /\ samples'[s].gradient = Rat(-4, 100)
             /\ samples'[s].gradient_error = None
             /\ samples'[s].gradient_relative_error = None]_vars

\* the first call of a run on the constant image was an update() that fell
\* back to the guess
C3_Witness ==
    \E s \in DOMAIN samples :
        /\ image = "flat"
        /\ Returned("update", s) /\ ret.n = 1
        /\ samples[s].cls = "Sample"
        /\ Len(grads) = 2
        /\ samples[s].mean = Rat(10, 1)
        /\ samples[s].gradient = Rat(-4, 100)

\* the sector area the probe of an area integrator reports
ProbeArea(s) ==
    get_sector_area(samples[s].integrmode, OwnGeom(s), initial_polar_radius(OwnGeom(s)))

\* Sample a is of an area mode whose probe area is under 1.0, Sample b is
\* bi-linear on a Geometry of the same values, and both hold values
FallbackPair(a, b) ==
    /\ samples[a].cls = "Sample" /\ samples[b].cls = "Sample"
    /\ is_area(samples[a].integrmode)
    /\ RLt(ProbeArea(a), <<1, 1>>)
    /\ samples[b].integrmode = BI_LINEAR
    /\ OwnGeom(a) = OwnGeom(b)
    /\ samples[a].values # None /\ samples[b].values # None

\* C4: the integrator that walked is the bi-linear one when the Sample's
\* mode is an area mode and the probe area is under 1.0, and the selected
\* one otherwise; after the fallback the values, total_points and
\* actual_points are those of a bi-linear Sample on the same geometry.
C4_AreaFallback ==
    /\ \A s \in DOMAIN samples :
           samples[s].cls = "Sample" /\ samples[s].integrator # None
           => samples[s].integrator =
                 IF is_area(samples[s].integrmode) /\ RLt(ProbeArea(s), <<1, 1>>)
                 THEN <<BI_LINEAR>> ELSE <<samples[s].integrmode>>
    /\ \A a, b \in DOMAIN samples :
           FallbackPair(a, b)
           => /\ samples[a].values = samples[b].values
              /\ samples[a].total_points = samples[b].total_points
              /\ samples[a].actual_points = samples[b].actual_points

\* a pair after the fallback, on the image where an area integrator reads
\* other values than the bi-linear one
C4_Witness ==
    /\ image = "bumpy"
    /\ \E a, b \in DOMAIN samples :
           /\ FallbackPair(a, b)
           /\ samples[a].actual_points > 0

\* C5: a Sample whose series is empty holds three empty rows and
\* actual_points = 0, and an update() of it returns with mean, gradient,
\* gradient_error and gradient_relative_error all NaN.
C5_EmptySeries ==
    \A s \in DOMAIN samples :
        samples[s].values # None /\ Len(samples[s].values[3]) = 0
        => /\ samples[s].values = <<<<>>, <<>>, <<>>>>
           /\ samples[s].actual_points = 0
           /\ ret.op = "update" /\ ret.on = s
                 => /\ ret.done /\ ret.exc = ""
                    /\ samples[s].mean = NaN
                    /\ samples[s].gradient = NaN
                    /\ samples[s].gradient_error = NaN
                    /\ samples[s].gradient_relative_error = NaN

\* an update() returned on a Sample of the image without a finite pixel
C5_Witness ==
    \E s \in DOMAIN samples :
        /\ image = "nan"
        /\ Returned("update", s)
        /\ samples[s].cls = "Sample"
        /\ samples[s].total_points > 0
        /\ samples[s].values = <<<<>>, <<>>, <<>>>>
        /\ samples[s].mean = NaN

\* C6: coordinates() on a Sample without values raises, returns nothing,
\* and changes no Sample and no Geometry.
C6_CoordinatesRaises ==
    [][\A s \in DOMAIN samples :
          Calls("coordinates", s) /\ samples[s].values = None
          => /\ ret'.exc # ""
             /\ ret'.val = None
             /\ samples' = samples
             /\ geoms' = geoms]_vars

\* coordinates() raised on a Sample that was never extracted
C6_Witness ==
    \E s \in DOMAIN samples :
        /\ ret.op = "coordinates" /\ ret.on = s
        /\ ret.exc = "TypeError"
        /\ samples[s].values = None /\ runs[s] = 0

\* C7: the caller's Geometry never changes, every Sample's own Geometry
\* has the sma its constructor got, and no call changes a Sample's own
\* Geometry.
C7_GeometryOwned ==
    [][/\ geoms'[G] = CallerGeometry
       /\ \A s \in DOMAIN samples' :
              geoms'[samples'[s].geometry[1]].sma = ctor'[s].sma
       /\ \A s \in DOMAIN samples :
              /\ samples'[s].geometry = samples[s].geometry
              /\ geoms'[samples'[s].geometry[1]] = OwnGeom(s)]_vars

\* two Samples built from the caller's Geometry with different sma, after
\* an update() of one of them
C7_Witness ==
    /\ DOMAIN samples = SampleIds
    /\ \A s \in SampleIds : ctor[s].geometry = <<G>> /\ samples[s].cls = "Sample"
    /\ \E s, t \in SampleIds : ctor[s].sma # ctor[t].sma
    /\ ret.op = "update" /\ ret.done
    /\ Len(grads) > 0

\* C8: every extract() and every update() returns: no walk goes on for ever.
C8_ExtractReturns ==
    ret.op \in {"extract", "update"} => ret.done

\* C9: every sibling Sample of the last update() has the center, eps, pa,
\* astep, growth mode, sclip, nclip and integrmode of its parent, and
\* sma = (1 + step) * the parent's.
C9_SiblingLikeParent ==
    \A s \in DOMAIN samples :
        ret.op = "update" /\ ret.on = s
        => \A i \in 1..Len(grads) :
               /\ grads[i].geometry.sma =
                      RMul(RAdd(<<1, 1>>, grads[i].step), OwnGeom(s).sma)
               /\ grads[i].geometry.x0 = OwnGeom(s).x0
               /\ grads[i].geometry.y0 = OwnGeom(s).y0
               /\ grads[i].geometry.eps = OwnGeom(s).eps
               /\ grads[i].geometry.pa = OwnGeom(s).pa
               /\ grads[i].geometry.astep = OwnGeom(s).astep
               /\ grads[i].geometry.linear_growth = OwnGeom(s).linear_growth
               /\ grads[i].sclip = samples[s].sclip
               /\ grads[i].nclip = samples[s].nclip
               /\ grads[i].integrmode = samples[s].integrmode

\* C10: after an update(), gradient_relative_error is None exactly when
\* gradient_error is None, and is gradient_error / |gradient| otherwise.
C10_RelativeErrorDefined ==
    \A s \in DOMAIN samples :
        ret.op = "update" /\ ret.on = s /\ ret.done
        => /\ samples[s].gradient_relative_error = None
                 <=> samples[s].gradient_error = None
           /\ samples[s].gradient_error # None
                 => samples[s].gradient_relative_error =
                        ErrorOver(samples[s].gradient_error, samples[s].gradient)

====
